---- MODULE Spec2Model ----
(***************************************************************************)
(* run_amadeus_node.py: AmadeusNodeBuilder, the build-and-launch pipeline  *)
(* of the Amadeus node.  One run of main() is one behaviour.  A step is    *)
(* the code between two suspension points of the interpreter: the start of *)
(* a stage up to the spawn of its external command, the return of that     *)
(* command up to the next spawn, or the delivery of SIGINT.                *)
(***************************************************************************)
EXTENDS Integers, Sequences, FiniteSets, TLC

\* Largest ordinary exit code the external commands return in the model.
MaxRetCode == 2

\* os.chmod(binary_path, 0o755)
ExecMode == 493
\* The modes make may give the files it writes: 0o644 or 0o755.
BuildModes == {420, ExecMode}

\* subprocess returncode: 0 success, 1..255 an exit code, -N killed by signal N.
RetCodes == {-9} \cup (0..MaxRetCode) \cup {255}

Commands == {"git", "make", "docker", "podman"}
Preferences == {"auto", "docker", "podman"}
Ports == {8080, 9090}
WorkDirs == {"/tmp/amadeus", "/data/x"}

\* build_and_run's seven calls, in program order.
StageOrder == <<"deps", "source", "image", "compile", "binary", "workdir", "launch">>

(***************************************************************************)
(* Paths.  A path is [abs, segs]: whether its text is absolute, and its    *)
(* components below the configured checkout directory.                     *)
(***************************************************************************)
Dockerfile == "build.Dockerfile"
binary_name == "amadeusd"

RootDF == <<Dockerfile>>
ExDF == <<"ex", Dockerfile>>
RootBin == <<binary_name>>
ExBin == <<"ex", binary_name>>
NestedBinA == <<"ex", "_build", binary_name>>
NestedBinB == <<"ex", "rel", binary_name>>

DescriptorNodes == {RootDF, ExDF}
BinaryNodes == {RootBin, ExBin, NestedBinA, NestedBinB}
Nodes == DescriptorNodes \cup BinaryNodes

\* Path / name
Join(p, name) == [p EXCEPT !.segs = Append(@, name)]

\* Path.resolve() and Path.absolute(): the same components, absolute text.
Resolve(p) == [p EXCEPT !.abs = TRUE]

IsPrefix(s, t) == Len(s) <= Len(t) /\ SubSeq(t, 1, Len(s)) = s

VARIABLES
    pc,             \* position of the interpreter in main()
    exitStatus,     \* status of sys.exit, -1 while the process runs
    interrupted,    \* a KeyboardInterrupt was raised in this run
    container_runtime, \* self.container_runtime (the preference)
    port,           \* self.port
    workdir,        \* self.workdir
    environ,        \* os.environ of the orchestrator
    onPath,         \* the commands shutil.which finds
    probed,         \* the commands check_command_exists was asked about
    runtime_cmd,    \* self.runtime_cmd, "None" until selected
    repo_dir,       \* self.repo_dir
    repoExists,     \* the checkout directory exists
    fs,             \* kind of each node below the checkout directory
    mode,           \* permission bits of each node
    workdirKind,    \* what is at the work directory path
    binary_path,    \* build_and_run's local binary_path, NoPath until bound
    stages,         \* stages started, in order
    done,           \* stages that returned
    cmdlog,         \* external commands spawned, with directory, check and rc
    execs           \* the os.execve calls made, each with its path and env

vars == <<pc, exitStatus, interrupted, container_runtime, port, workdir, environ,
          onPath, probed, runtime_cmd, repo_dir, repoExists, fs, mode,
          workdirKind, binary_path, stages, done, cmdlog, execs>>

\* The value of a path variable that is not bound yet.
NoPath == [abs |-> FALSE, segs |-> <<"None">>]

\* The checkout directory as given on the command line: relative
\* ("amadeus-node", the default) or absolute ("/opt/amadeus").
CheckoutDirs == {[abs |-> FALSE, segs |-> <<>>], [abs |-> TRUE, segs |-> <<>>]}

Kind(segs) == IF segs \in DOMAIN fs THEN fs[segs] ELSE "none"

\* Path.exists()
Exists(p) == Kind(p.segs) # "none"

(***************************************************************************)
(* The inherited environment: a function from names to values.             *)
(***************************************************************************)
Inherited ==
    [n \in {"HOME", "PATH", "TESTNET", "WORKFOLDER", "HTTP_IPV4", "HTTP_PORT"} |->
        CASE n = "HOME" -> "/root"
          [] n = "PATH" -> "/usr/bin"
          [] n = "TESTNET" -> "false"
          [] n = "WORKFOLDER" -> "/var/old"
          [] n = "HTTP_IPV4" -> "0.0.0.0"
          [] n = "HTTP_PORT" -> "80"]

EnvDomains == {{"HOME", "TESTNET", "HTTP_PORT"}, DOMAIN Inherited}

InheritedEnvs == {[n \in D |-> Inherited[n]] : D \in EnvDomains}

\* dict.update
Update(env, upd) ==
    [n \in DOMAIN env \cup DOMAIN upd |-> IF n \in DOMAIN upd THEN upd[n] ELSE env[n]]

DigitChars == <<"0", "1", "2", "3", "4", "5", "6", "7", "8", "9">>

RECURSIVE Decimal(_)
Decimal(n) ==
    IF n < 10 THEN DigitChars[n + 1]
    ELSE Decimal(n \div 10) \o DigitChars[(n % 10) + 1]

\* str(int)
Str(n) == IF n < 0 THEN "-" \o Decimal(0 - n) ELSE Decimal(n)

\* run_node's env with the update the wrong way round: inherited values win.
NodeEnvInheritedWins(inherited, wd, p) ==
    Update([n \in {"TESTNET", "WORKFOLDER", "HTTP_IPV4", "HTTP_PORT"} |->
               CASE n = "TESTNET" -> "true"
                 [] n = "WORKFOLDER" -> wd
                 [] n = "HTTP_IPV4" -> "127.0.0.1"
                 [] n = "HTTP_PORT" -> Str(p)],
           inherited)

\* run_node's env: os.environ.copy() updated with the four settings.
NodeEnv(inherited, wd, p) ==
    Update(inherited,
           [n \in {"TESTNET", "WORKFOLDER", "HTTP_IPV4", "HTTP_PORT"} |->
               CASE n = "TESTNET" -> "true"
                 [] n = "WORKFOLDER" -> wd
                 [] n = "HTTP_IPV4" -> "127.0.0.1"
                 [] n = "HTTP_PORT" -> Str(p)])

(***************************************************************************)
(* check_command_exists and detect_container_runtime.  The result is the   *)
(* engine selected ("None" when the method exits) and the commands probed. *)
(***************************************************************************)
check_command_exists(command, path) == command \in path

\* detect_container_runtime probing podman before docker under auto.
detect_podman_first(preference, path) ==
    CASE preference = "auto" ->
            IF check_command_exists("podman", path)
            THEN [runtime |-> "podman", probes |-> {"podman"}]
            ELSE IF check_command_exists("docker", path)
            THEN [runtime |-> "docker", probes |-> {"docker", "podman"}]
            ELSE [runtime |-> "None", probes |-> {"docker", "podman"}]
      [] preference = "docker" ->
            IF ~check_command_exists("docker", path)
            THEN [runtime |-> "None", probes |-> {"docker"}]
            ELSE [runtime |-> "docker", probes |-> {"docker"}]
      [] preference = "podman" ->
            IF ~check_command_exists("podman", path)
            THEN [runtime |-> "None", probes |-> {"podman"}]
            ELSE [runtime |-> "podman", probes |-> {"podman"}]
      [] OTHER -> [runtime |-> "None", probes |-> {}]

\* detect_container_runtime falling back to the other engine when the
\* requested one is absent.
detect_with_fallback(preference, path) ==
    LET first == IF preference = "podman" THEN "podman" ELSE "docker"
        second == IF preference = "podman" THEN "docker" ELSE "podman"
    IN  IF check_command_exists(first, path)
        THEN [runtime |-> first, probes |-> {first}]
        ELSE IF check_command_exists(second, path)
        THEN [runtime |-> second, probes |-> {first, second}]
        ELSE [runtime |-> "None", probes |-> {first, second}]

detect_container_runtime(preference, path) ==
    CASE preference = "auto" ->
            IF check_command_exists("docker", path)
            THEN [runtime |-> "docker", probes |-> {"docker"}]
            ELSE IF check_command_exists("podman", path)
            THEN [runtime |-> "podman", probes |-> {"docker", "podman"}]
            ELSE [runtime |-> "None", probes |-> {"docker", "podman"}]
      [] preference = "docker" ->
            IF ~check_command_exists("docker", path)
            THEN [runtime |-> "None", probes |-> {"docker"}]
            ELSE [runtime |-> "docker", probes |-> {"docker"}]
      [] preference = "podman" ->
            IF ~check_command_exists("podman", path)
            THEN [runtime |-> "None", probes |-> {"podman"}]
            ELSE [runtime |-> "podman", probes |-> {"podman"}]
      [] OTHER -> [runtime |-> "None", probes |-> {}]

\* The exit status the parent of the orchestrator sees for sys.exit(code).
ExitStatus(code) == code % 256

Init ==
    /\ pc = "deps"
    /\ exitStatus = -1
    /\ interrupted = FALSE
    /\ container_runtime \in Preferences
    /\ port \in Ports
    /\ workdir \in WorkDirs
    /\ environ \in InheritedEnvs
    /\ onPath \in SUBSET Commands
    /\ probed = {}
    /\ runtime_cmd = "None"
    /\ repo_dir \in CheckoutDirs
    /\ repoExists \in BOOLEAN
    /\ fs \in [Nodes -> {"none", "file"}]
    /\ \A n \in BinaryNodes : fs[n] = "none"
    /\ ~repoExists => \A n \in Nodes : fs[n] = "none"
    /\ mode = [n \in Nodes |-> 0]
    /\ workdirKind \in {"none", "dir", "file"}
    /\ binary_path = NoPath
    /\ stages = <<>>
    /\ done = <<>>
    /\ cmdlog = <<>>
    /\ execs = <<>>

\* The variables no step of the program writes.
config == <<container_runtime, port, workdir, environ, onPath>>

\* sys.exit(code)
Exit(code) == pc' = "exited" /\ exitStatus' = ExitStatus(code)

\* Control stays inside the process.
Goto(label) == pc' = label /\ exitStatus' = exitStatus

Start(stage) == stages' = Append(stages, stage)

Return(stage) == done' = Append(done, stage)

\* subprocess.run starts the child: run_command, lines 91-97.
Spawn(prog, name, dir, check) ==
    cmdlog' = Append(cmdlog, [prog |-> prog, name |-> name, dir |-> dir,
                              check |-> check, returned |-> FALSE, rc |-> 0])

\* The child of the last subprocess.run ended with returncode rc.
Returned(rc) ==
    cmdlog' = [cmdlog EXCEPT ![Len(cmdlog)] = [@ EXCEPT !.returned = TRUE, !.rc = rc]]

\* subprocess.run(check=...) raises CalledProcessError.
CalledProcessError(check, rc) == check /\ rc # 0

\* run_command's handler exiting with a fixed status.
run_command_failed_one(rc) == Exit(1)

\* run_command's handler of CalledProcessError: sys.exit(e.returncode).
run_command_failed(rc) == Exit(rc)

\* main's handler of an unexpected exception exiting with another status.
UnexpectedErrorStatusTwo == Exit(2)

\* main's handler of any other exception: sys.exit(1).
UnexpectedError == Exit(1)

\* check_dependencies selecting the container runtime before it looks for
\* git and make.
check_dependencies_detect_first ==
    /\ pc = "deps"
    /\ Start("deps")
    /\ LET missing_deps == {dep \in {"git", "make"} : ~check_command_exists(dep, onPath)}
           detected == detect_container_runtime(container_runtime, onPath)
       IN  IF detected.runtime = "None"
           THEN /\ probed' = probed \cup detected.probes
                /\ Exit(1)
                /\ UNCHANGED <<runtime_cmd, done>>
           ELSE /\ probed' = probed \cup {"git", "make"} \cup detected.probes
                /\ runtime_cmd' = detected.runtime
                /\ IF missing_deps # {}
                   THEN Exit(1) /\ UNCHANGED done
                   ELSE Return("deps") /\ Goto("source")
    /\ UNCHANGED <<interrupted, config, repo_dir, repoExists, fs, mode, workdirKind,
                   binary_path, cmdlog, execs>>

(***************************************************************************)
(* check_dependencies, with detect_container_runtime.  No external command *)
(* runs, so the whole stage is one step.                                   *)
(***************************************************************************)
check_dependencies ==
    /\ pc = "deps"
    /\ Start("deps")
    /\ LET missing_deps == {dep \in {"git", "make"} : ~check_command_exists(dep, onPath)}
           detected == detect_container_runtime(container_runtime, onPath)
       IN  IF missing_deps # {}
           THEN /\ probed' = probed \cup {"git", "make"}
                /\ Exit(1)
                /\ UNCHANGED <<runtime_cmd, done>>
           ELSE /\ probed' = probed \cup {"git", "make"} \cup detected.probes
                /\ IF detected.runtime = "None"
                   THEN Exit(1) /\ UNCHANGED <<runtime_cmd, done>>
                   ELSE /\ runtime_cmd' = detected.runtime
                        /\ Return("deps")
                        /\ Goto("source")
    /\ UNCHANGED <<interrupted, config, repo_dir, repoExists, fs, mode, workdirKind,
                   binary_path, cmdlog, execs>>

\* clone_repository running git pull with check=True.
clone_repository_checked_pull ==
    /\ pc = "source"
    /\ Start("source")
    /\ \/ /\ IF repoExists
             THEN Spawn("git", "pull", repo_dir, TRUE) /\ Goto("pull_wait")
             ELSE Spawn("git", "clone", repo_dir, TRUE) /\ Goto("clone_wait")
       \/ /\ UnexpectedError
          /\ UNCHANGED cmdlog
    /\ UNCHANGED <<interrupted, config, probed, runtime_cmd, repo_dir, repoExists, fs,
                   mode, workdirKind, binary_path, done, execs>>

(***************************************************************************)
(* clone_repository up to its external command: git pull (unchecked) when  *)
(* the checkout exists, git clone (checked) otherwise.  subprocess.run may *)
(* fail to start the child (OSError), which main reports as an unexpected  *)
(* error.                                                                  *)
(***************************************************************************)
clone_repository ==
    /\ pc = "source"
    /\ Start("source")
    /\ \/ /\ IF repoExists
             THEN Spawn("git", "pull", repo_dir, FALSE) /\ Goto("pull_wait")
             ELSE Spawn("git", "clone", repo_dir, TRUE) /\ Goto("clone_wait")
       \/ /\ UnexpectedError
          /\ UNCHANGED cmdlog
    /\ UNCHANGED <<interrupted, config, probed, runtime_cmd, repo_dir, repoExists, fs,
                   mode, workdirKind, binary_path, done, execs>>

\* The trees the remote may hold: any combination of the two descriptors.
Checkouts(tree) ==
    {t \in [Nodes -> {"none", "file"}] : \A n \in BinaryNodes : t[n] = tree[n]}

\* git pull run again, without end, for as long as it fails.
pull_returned_retry ==
    /\ pc = "pull_wait"
    /\ \E rc \in RetCodes :
          /\ Returned(rc)
          /\ IF rc # 0
             THEN Goto("pull_wait") /\ UNCHANGED fs
             ELSE Goto("resolve") /\ fs' \in Checkouts(fs)
    /\ UNCHANGED <<interrupted, config, probed, runtime_cmd, repo_dir, repoExists,
                   mode, workdirKind, binary_path, stages, done, execs>>

\* git pull returned.  check=False: its exit code is not looked at.
pull_returned ==
    /\ pc = "pull_wait"
    /\ \E rc \in RetCodes :
          /\ Returned(rc)
          /\ IF CalledProcessError(cmdlog[Len(cmdlog)].check, rc)
             THEN run_command_failed(rc) /\ UNCHANGED fs
             ELSE /\ Goto("resolve")
                  /\ IF rc = 0 THEN fs' \in Checkouts(fs) ELSE UNCHANGED fs
    /\ UNCHANGED <<interrupted, config, probed, runtime_cmd, repo_dir, repoExists,
                   mode, workdirKind, binary_path, stages, done, execs>>

\* git clone returned.  check=True: a non-zero exit code ends the run.
clone_returned ==
    /\ pc = "clone_wait"
    /\ \E rc \in RetCodes :
          /\ Returned(rc)
          /\ IF CalledProcessError(cmdlog[Len(cmdlog)].check, rc)
             THEN run_command_failed(rc) /\ UNCHANGED <<fs, repoExists>>
             ELSE /\ Goto("resolve")
                  /\ repoExists' = TRUE
                  /\ fs' \in Checkouts(fs)
    /\ UNCHANGED <<interrupted, config, probed, runtime_cmd, repo_dir,
                   mode, workdirKind, binary_path, stages, done, execs>>

\* The build root resolved with the ex subdirectory looked at first.
resolve_ex_first ==
    /\ pc = "resolve"
    /\ LET resolved == Resolve(repo_dir)
           candidate == Join(resolved, "ex")
       IN  IF Exists(Join(candidate, Dockerfile))
           THEN Return("source") /\ Goto("image") /\ repo_dir' = candidate
           ELSE IF Exists(Join(resolved, Dockerfile))
           THEN Return("source") /\ Goto("image") /\ UNCHANGED repo_dir
           ELSE Exit(1) /\ UNCHANGED <<repo_dir, done>>
    /\ UNCHANGED <<interrupted, config, probed, runtime_cmd, repoExists, fs, mode,
                   workdirKind, binary_path, stages, cmdlog, execs>>

\* clone_repository, lines 140-153: the build root.
resolve_build_root ==
    /\ pc = "resolve"
    /\ LET resolved == Resolve(repo_dir)
           candidate == Join(resolved, "ex")
       IN  IF Exists(Join(resolved, Dockerfile))
           THEN Return("source") /\ Goto("image") /\ UNCHANGED repo_dir
           ELSE IF Exists(Join(candidate, Dockerfile))
           THEN Return("source") /\ Goto("image") /\ repo_dir' = candidate
           ELSE Exit(1) /\ UNCHANGED <<repo_dir, done>>
    /\ UNCHANGED <<interrupted, config, probed, runtime_cmd, repoExists, fs, mode,
                   workdirKind, binary_path, stages, cmdlog, execs>>

\* Another process removes a build descriptor from the checkout before the
\* image build reads it.
descriptor_removed ==
    /\ pc \in {"resolve", "image"}
    /\ \E n \in DescriptorNodes :
          /\ fs[n] = "file"
          /\ fs' = [fs EXCEPT ![n] = "none"]
    /\ UNCHANGED <<pc, exitStatus, interrupted, config, probed, runtime_cmd, repo_dir,
                   repoExists, mode, workdirKind, binary_path, stages, done, cmdlog,
                   execs>>

\* build_builder_image with the docker command line written out.
build_builder_image_docker ==
    /\ pc = "image"
    /\ Start("image")
    /\ LET dockerfile_path == Join(repo_dir, Dockerfile)
       IN  IF ~Exists(dockerfile_path)
           THEN Exit(1) /\ UNCHANGED cmdlog
           ELSE \/ Spawn("docker", "build", repo_dir, TRUE) /\ Goto("image_wait")
                \/ UnexpectedError /\ UNCHANGED cmdlog
    /\ UNCHANGED <<interrupted, config, probed, runtime_cmd, repo_dir, repoExists, fs,
                   mode, workdirKind, binary_path, done, execs>>

\* build_builder_image without its re-check of the descriptor.
build_builder_image_unchecked ==
    /\ pc = "image"
    /\ Start("image")
    /\ \/ Spawn(runtime_cmd, "build", repo_dir, TRUE) /\ Goto("image_wait")
       \/ UnexpectedError /\ UNCHANGED cmdlog
    /\ UNCHANGED <<interrupted, config, probed, runtime_cmd, repo_dir, repoExists, fs,
                   mode, workdirKind, binary_path, done, execs>>

(***************************************************************************)
(* build_builder_image: the re-check of the descriptor, then               *)
(* <runtime> build --tag erlang_builder -f build.Dockerfile . in repo_dir. *)
(***************************************************************************)
build_builder_image ==
    /\ pc = "image"
    /\ Start("image")
    /\ LET dockerfile_path == Join(repo_dir, Dockerfile)
       IN  IF ~Exists(dockerfile_path)
           THEN Exit(1) /\ UNCHANGED cmdlog
           ELSE \/ Spawn(runtime_cmd, "build", repo_dir, TRUE) /\ Goto("image_wait")
                \/ UnexpectedError /\ UNCHANGED cmdlog
    /\ UNCHANGED <<interrupted, config, probed, runtime_cmd, repo_dir, repoExists, fs,
                   mode, workdirKind, binary_path, done, execs>>

\* The image build run with check=False: the pipeline goes on after a failure.
image_returned_unchecked ==
    /\ pc = "image_wait"
    /\ \E rc \in RetCodes :
          /\ Returned(rc)
          /\ IF rc = 0
             THEN Return("image") /\ Goto("compile")
             ELSE Goto("compile") /\ UNCHANGED done
    /\ UNCHANGED <<interrupted, config, probed, runtime_cmd, repo_dir, repoExists, fs,
                   mode, workdirKind, binary_path, stages, execs>>

image_returned ==
    /\ pc = "image_wait"
    /\ \E rc \in RetCodes :
          /\ Returned(rc)
          /\ IF CalledProcessError(cmdlog[Len(cmdlog)].check, rc)
             THEN run_command_failed(rc) /\ UNCHANGED done
             ELSE Return("image") /\ Goto("compile")
    /\ UNCHANGED <<interrupted, config, probed, runtime_cmd, repo_dir, repoExists, fs,
                   mode, workdirKind, binary_path, stages, execs>>

\* compile_node mounting the checkout directory instead of the build root.
compile_node_mounts_checkout ==
    /\ pc = "compile"
    /\ Start("compile")
    /\ \/ /\ Spawn(runtime_cmd, "run make", [abs |-> TRUE, segs |-> <<>>], TRUE)
          /\ Goto("compile_wait")
       \/ UnexpectedError /\ UNCHANGED cmdlog
    /\ UNCHANGED <<interrupted, config, probed, runtime_cmd, repo_dir, repoExists, fs,
                   mode, workdirKind, binary_path, done, execs>>

(***************************************************************************)
(* compile_node: <runtime> run --rm -v <repo_dir.absolute()>:/app -w /app  *)
(* erlang_builder make.                                                    *)
(***************************************************************************)
compile_node ==
    /\ pc = "compile"
    /\ Start("compile")
    /\ \/ Spawn(runtime_cmd, "run make", Resolve(repo_dir), TRUE) /\ Goto("compile_wait")
       \/ UnexpectedError /\ UNCHANGED cmdlog
    /\ UNCHANGED <<interrupted, config, probed, runtime_cmd, repo_dir, repoExists, fs,
                   mode, workdirKind, binary_path, done, execs>>

\* What make may leave in the mounted directory: a file named amadeusd at any
\* of the binary nodes below it, or a directory of that name at its top.
\* Nothing outside the mount is written.
BuildOutputs(tree, root) ==
    {t \in [Nodes -> {"none", "file", "dir"}] :
        \A n \in Nodes :
            /\ (n \notin BinaryNodes \/ ~IsPrefix(root.segs, n)) => t[n] = tree[n]
            /\ t[n] = "dir" => n = Join(root, binary_name).segs}

compile_returned ==
    /\ pc = "compile_wait"
    /\ \E rc \in RetCodes :
          /\ Returned(rc)
          /\ IF CalledProcessError(cmdlog[Len(cmdlog)].check, rc)
             THEN run_command_failed(rc) /\ UNCHANGED <<done, fs, mode>>
             ELSE /\ Return("compile")
                  /\ Goto("binary")
                  /\ fs' \in BuildOutputs(fs, cmdlog[Len(cmdlog)].dir)
                  /\ \E m \in BuildModes :
                        mode' = [n \in Nodes |->
                                    IF n \in BinaryNodes
                                       /\ IsPrefix(cmdlog[Len(cmdlog)].dir.segs, n)
                                    THEN m ELSE mode[n]]
    /\ UNCHANGED <<interrupted, config, probed, runtime_cmd, repo_dir, repoExists,
                   workdirKind, binary_path, stages, execs>>

(***************************************************************************)
(* verify_binary.  The fallback is find <repo_dir> -name amadeusd -type f  *)
(* with its output captured; run_command returns stdout.strip().           *)
(***************************************************************************)
\* The regular files find reports below root, as find prints them.
FindMatches(root) ==
    {[abs |-> root.abs, segs |-> n] :
        n \in {b \in BinaryNodes : fs[b] = "file" /\ IsPrefix(root.segs, b)}}

\* The orders a directory traversal may list a set of matches in.
Orders(S) ==
    {q \in [1..Cardinality(S) -> S] : \A i, j \in DOMAIN q : q[i] = q[j] => i = j}

RECURSIVE JoinLines(_)
JoinLines(lines) ==
    IF Len(lines) = 1 THEN lines[1].segs
    ELSE lines[1].segs \o <<"\n">> \o JoinLines(Tail(lines))

\* Path(result): the whole text of the output is one path.
PathOfText(lines) == [abs |-> lines[1].abs, segs |-> JoinLines(lines)]

\* os.chmod(binary_path, 0o755), where the path names something.
chmod(path) == [mode EXCEPT ![path.segs] = ExecMode]

\* verify_binary looking for the conventional path in the checkout directory
\* instead of the build root.
verify_binary_in_checkout ==
    /\ pc = "binary"
    /\ Start("binary")
    /\ LET conventional == Join([repo_dir EXCEPT !.segs = <<>>], binary_name)
       IN  IF Exists(conventional)
           THEN /\ mode' = chmod(conventional)
                /\ binary_path' = conventional
                /\ Return("binary")
                /\ Goto("workdir")
                /\ UNCHANGED cmdlog
           ELSE /\ \/ Spawn("find", "find", repo_dir, TRUE) /\ Goto("find_wait")
                   \/ UnexpectedError /\ UNCHANGED cmdlog
                /\ UNCHANGED <<mode, binary_path, done>>
    /\ UNCHANGED <<interrupted, config, probed, runtime_cmd, repo_dir, repoExists, fs,
                   workdirKind, execs>>

verify_binary ==
    /\ pc = "binary"
    /\ Start("binary")
    /\ LET conventional == Join(repo_dir, binary_name)
       IN  IF Exists(conventional)
           THEN /\ mode' = chmod(conventional)
                /\ binary_path' = conventional
                /\ Return("binary")
                /\ Goto("workdir")
                /\ UNCHANGED cmdlog
           ELSE /\ \/ Spawn("find", "find", repo_dir, TRUE) /\ Goto("find_wait")
                   \/ UnexpectedError /\ UNCHANGED cmdlog
                /\ UNCHANGED <<mode, binary_path, done>>
    /\ UNCHANGED <<interrupted, config, probed, runtime_cmd, repo_dir, repoExists, fs,
                   workdirKind, execs>>

\* verify_binary returning the path found by find without the chmod.
find_returned_without_chmod ==
    /\ pc = "find_wait"
    /\ \E rc \in RetCodes, result \in Orders(FindMatches(cmdlog[Len(cmdlog)].dir)) :
          /\ Returned(rc)
          /\ IF CalledProcessError(cmdlog[Len(cmdlog)].check, rc)
             THEN run_command_failed(rc) /\ UNCHANGED <<binary_path, done>>
             ELSE IF result = <<>>
             THEN Exit(1) /\ UNCHANGED <<binary_path, done>>
             ELSE /\ binary_path' = PathOfText(result)
                  /\ Return("binary")
                  /\ Goto("workdir")
    /\ UNCHANGED <<interrupted, config, probed, runtime_cmd, repo_dir, repoExists, fs,
                   mode, workdirKind, stages, execs>>

find_returned ==
    /\ pc = "find_wait"
    /\ \E rc \in RetCodes, result \in Orders(FindMatches(cmdlog[Len(cmdlog)].dir)) :
          /\ Returned(rc)
          /\ IF CalledProcessError(cmdlog[Len(cmdlog)].check, rc)
             THEN run_command_failed(rc) /\ UNCHANGED <<mode, binary_path, done>>
             ELSE IF result = <<>>
             THEN Exit(1) /\ UNCHANGED <<mode, binary_path, done>>
             ELSE IF ~Exists(PathOfText(result))
             THEN UnexpectedError /\ UNCHANGED <<mode, binary_path, done>>
             ELSE /\ mode' = chmod(PathOfText(result))
                  /\ binary_path' = PathOfText(result)
                  /\ Return("binary")
                  /\ Goto("workdir")
    /\ UNCHANGED <<interrupted, config, probed, runtime_cmd, repo_dir, repoExists, fs,
                   workdirKind, stages, execs>>

\* create_work_directory with mkdir(exist_ok=False): an existing directory
\* raises FileExistsError too.
create_work_directory_exclusive ==
    /\ pc = "workdir"
    /\ Start("workdir")
    /\ IF workdirKind # "none"
       THEN UnexpectedError /\ UNCHANGED <<workdirKind, done>>
       ELSE workdirKind' = "dir" /\ Return("workdir") /\ Goto("launch")
    /\ UNCHANGED <<interrupted, config, probed, runtime_cmd, repo_dir, repoExists, fs,
                   mode, binary_path, cmdlog, execs>>

\* create_work_directory: Path(workdir).mkdir(parents=True, exist_ok=True),
\* which raises FileExistsError when the path is taken by a file.
create_work_directory ==
    /\ pc = "workdir"
    /\ Start("workdir")
    /\ IF workdirKind = "file"
       THEN UnexpectedError /\ UNCHANGED <<workdirKind, done>>
       ELSE workdirKind' = "dir" /\ Return("workdir") /\ Goto("launch")
    /\ UNCHANGED <<interrupted, config, probed, runtime_cmd, repo_dir, repoExists, fs,
                   mode, binary_path, cmdlog, execs>>

Started_launch(started) == \E i \in DOMAIN started : started[i] = "launch"

\* run_node trying the replacement again after a failed os.execve.
run_node_retry ==
    /\ pc = "launch"
    /\ Len(execs) < 2
    /\ stages' = IF Started_launch(stages) THEN stages ELSE Append(stages, "launch")
    /\ execs' = Append(execs, [path |-> binary_path,
                               env |-> NodeEnv(environ, workdir, port)])
    /\ \/ /\ Kind(binary_path.segs) = "file"
          /\ pc' = "replaced"
          /\ exitStatus' = exitStatus
       \/ IF Len(execs) = 0 THEN Goto("launch") ELSE Exit(1)
    /\ UNCHANGED <<interrupted, config, probed, runtime_cmd, repo_dir, repoExists, fs,
                   mode, workdirKind, binary_path, done, cmdlog>>

(***************************************************************************)
(* run_node: os.execve(str(binary_path), [str(binary_path)], env).  The    *)
(* call replaces the process, or raises OSError and run_node exits 1.      *)
(***************************************************************************)
run_node ==
    /\ pc = "launch"
    /\ Start("launch")
    /\ execs' = Append(execs, [path |-> binary_path,
                               env |-> NodeEnv(environ, workdir, port)])
    /\ \/ /\ Kind(binary_path.segs) = "file"
          /\ pc' = "replaced"
          /\ exitStatus' = exitStatus
       \/ Exit(1)
    /\ UNCHANGED <<interrupted, config, probed, runtime_cmd, repo_dir, repoExists, fs,
                   mode, workdirKind, binary_path, done, cmdlog>>

\* SIGINT with no handler of KeyboardInterrupt in main: the interpreter dies
\* of the signal, which a shell reports as status 130.
keyboard_interrupt_uncaught ==
    /\ pc \notin {"exited", "replaced"}
    /\ interrupted' = TRUE
    /\ Exit(130)
    /\ UNCHANGED <<config, probed, runtime_cmd, repo_dir, repoExists, fs, mode,
                   workdirKind, binary_path, stages, done, cmdlog, execs>>

\* main's handler of KeyboardInterrupt: SIGINT reaches the orchestrator
\* anywhere inside the try block; subprocess.run kills a child in flight and
\* re-raises, so the child's returncode is never looked at.
keyboard_interrupt ==
    /\ pc \notin {"exited", "replaced"}
    /\ interrupted' = TRUE
    /\ Exit(0)
    /\ UNCHANGED <<config, probed, runtime_cmd, repo_dir, repoExists, fs, mode,
                   workdirKind, binary_path, stages, done, cmdlog, execs>>

Next ==
    \/ check_dependencies
    \/ clone_repository
    \/ pull_returned
    \/ clone_returned
    \/ resolve_build_root
    \/ descriptor_removed
    \/ build_builder_image
    \/ image_returned
    \/ compile_node
    \/ compile_returned
    \/ verify_binary
    \/ find_returned
    \/ create_work_directory
    \/ run_node
    \/ keyboard_interrupt

Spec == Init /\ [][Next]_vars

\* The steps of the orchestrator itself, the returns of its commands included.
ProgramStep ==
    \/ check_dependencies
    \/ clone_repository
    \/ pull_returned
    \/ clone_returned
    \/ resolve_build_root
    \/ build_builder_image
    \/ image_returned
    \/ compile_node
    \/ compile_returned
    \/ verify_binary
    \/ find_returned
    \/ create_work_directory
    \/ run_node

\* The runs in which the interpreter keeps running and every external command
\* eventually completes.  No fairness for the interrupt or for other processes.
FairSpec == Init /\ [][Next]_vars /\ WF_vars(ProgramStep)

(***************************************************************************)
(* Properties.                                                             *)
(***************************************************************************)
Terminal == {"exited", "replaced"}

Started(stage) == \E i \in DOMAIN stages : stages[i] = stage

Returns(stage) == \E i \in DOMAIN done : done[i] = stage

\* The step spawns an external command of the given name.
Spawns(name) == Len(cmdlog') = Len(cmdlog) + 1 /\ cmdlog'[Len(cmdlog')].name = name

\* detect_container_runtime was reached: check_dependencies ran with git and
\* make found.
DetectionRan == Started("deps") /\ {"git", "make"} \subseteq onPath

\* C1: the stages start in the order deps, source, image, compile, binary,
\* workdir, launch, each at most once and only when all earlier stages have
\* returned; once the process has exited no stage and no external command
\* is started.
C1_StageOrderInv ==
    /\ IsPrefix(stages, StageOrder)
    /\ IsPrefix(done, stages)
    /\ Len(stages) <= Len(done) + 1
    /\ pc = "exited" /\ ~interrupted => Len(done) < Len(stages)

C1_StrictPipeline ==
    /\ []C1_StageOrderInv
    /\ [][pc = "exited" => stages' = stages /\ cmdlog' = cmdlog /\ pc' = "exited"]_vars

\* C1 witness: the containerized compile failed after three stages returned.
C1_Witness ==
    /\ pc = "exited"
    /\ exitStatus = 2
    /\ stages = <<"deps", "source", "image", "compile">>
    /\ done = <<"deps", "source", "image">>

\* C2: under preference auto, detection selects docker whenever docker is on
\* the path, podman only when docker is absent and podman present, and with
\* neither it selects nothing and the process exits non-zero.
C2_AutoPrefersDocker ==
    container_runtime = "auto" /\ DetectionRan =>
        /\ "docker" \in onPath => runtime_cmd = "docker"
        /\ "docker" \notin onPath /\ "podman" \in onPath => runtime_cmd = "podman"
        /\ runtime_cmd = "podman" => "docker" \notin onPath
        /\ "docker" \notin onPath /\ "podman" \notin onPath =>
              runtime_cmd = "None" /\ pc = "exited" /\ exitStatus > 0

\* C2 witness: both engines are installed and docker was selected.
C2_Witness ==
    /\ container_runtime = "auto"
    /\ {"docker", "podman"} \subseteq onPath
    /\ Returns("deps")
    /\ runtime_cmd = "docker"

\* C3: under an explicit preference only the requested engine is probed; if
\* it is absent the run fails in the first stage, before any command, and the
\* other engine is never selected; if it is present it is the one selected.
C3_ExplicitNoFallback ==
    \A requested \in {"docker", "podman"} :
        LET other == IF requested = "docker" THEN "podman" ELSE "docker"
        IN  container_runtime = requested =>
                /\ other \notin probed
                /\ runtime_cmd # other
                /\ DetectionRan =>
                      /\ requested \in probed
                      /\ requested \in onPath => runtime_cmd = requested
                      /\ requested \notin onPath =>
                            /\ runtime_cmd = "None"
                            /\ pc = "exited"
                            /\ exitStatus > 0
                            /\ stages = <<"deps">>
                            /\ cmdlog = <<>>

\* C3 witness: docker was requested and is absent while podman is installed.
C3_Witness ==
    /\ container_runtime = "docker"
    /\ DetectionRan
    /\ "docker" \notin onPath
    /\ "podman" \in onPath
    /\ pc = "exited"

\* C4: the step that resolves the build root keeps the checkout directory
\* when build.Dockerfile is at its root (also when ex has one too), and moves
\* to the ex subdirectory when the descriptor is only there.
C4_BuildRootResolution ==
    [][pc = "resolve" /\ pc' # "resolve" /\ ~interrupted' =>
          /\ fs[RootDF] = "file" =>
                pc' = "image" /\ repo_dir' = repo_dir /\ repo_dir'.segs = <<>>
          /\ fs[RootDF] = "none" /\ fs[ExDF] = "file" =>
                pc' = "image" /\ repo_dir'.segs = <<"ex">>]_vars

\* C4 witness: the descriptor is only under ex and the build root is ex.
C4_Witness ==
    /\ pc = "image"
    /\ fs[RootDF] = "none"
    /\ fs[ExDF] = "file"
    /\ repo_dir.segs = <<"ex">>

\* C5: the image build is spawned only from states where build.Dockerfile
\* exists in the build root; when the resolution finds the descriptor neither
\* at the root nor under ex the run ends there with status 1, no image build
\* spawned and no later stage started.
C5_NoBuildWithoutDescriptor ==
    [][/\ Spawns("build") => fs[Join(repo_dir, Dockerfile).segs] = "file"
       /\ pc = "resolve" /\ pc' # "resolve" /\ ~interrupted'
            /\ fs[RootDF] = "none" /\ fs[ExDF] = "none" =>
              /\ pc' = "exited"
              /\ exitStatus' = 1
              /\ stages' = <<"deps", "source">>
              /\ \A i \in DOMAIN cmdlog' : cmdlog'[i].name # "build"]_vars

\* C5 witness: the checkout holds no descriptor and the run ended in source
\* preparation after git returned.
C5_Witness ==
    /\ pc = "exited"
    /\ ~interrupted
    /\ exitStatus = 1
    /\ stages = <<"deps", "source">>
    /\ Len(cmdlog) = 1 /\ cmdlog[1].returned /\ cmdlog[1].rc = 0
    /\ fs[RootDF] = "none" /\ fs[ExDF] = "none"

\* The step is the return of the external command in flight with returncode rc.
CommandReturns(name, rc) ==
    /\ Len(cmdlog) > 0
    /\ Len(cmdlog') = Len(cmdlog)
    /\ cmdlog[Len(cmdlog)].name = name
    /\ ~cmdlog[Len(cmdlog)].returned
    /\ cmdlog'[Len(cmdlog)].returned
    /\ cmdlog'[Len(cmdlog)].rc = rc

\* C6: a git pull that returns non-zero leaves the run alive and at the
\* resolution of the build root; a git clone that returns non-zero ends the
\* run non-zero in source preparation, with no resolution and no later stage.
C6_PullFailureTolerated ==
    [][\A rc \in RetCodes \ {0} :
          /\ CommandReturns("pull", rc) =>
                /\ pc' = "resolve"
                /\ exitStatus' = -1
                /\ UNCHANGED <<stages, done, repo_dir>>
          /\ CommandReturns("clone", rc) =>
                /\ pc' = "exited"
                /\ exitStatus' > 0
                /\ stages' = <<"deps", "source">>
                /\ done' = <<"deps">>
                /\ UNCHANGED repo_dir]_vars

\* C6 witness: git pull failed and the pipeline went on to the image build.
C6_Witness ==
    /\ Started("image")
    /\ cmdlog[1].name = "pull"
    /\ cmdlog[1].returned
    /\ cmdlog[1].rc = 1

\* C7: once verify_binary has returned, its result is the conventional path
\* <build root>/amadeusd if that exists, and otherwise a regular file named
\* amadeusd below the build root; either way the result has mode 0o755.
C7_BinaryResolved ==
    Returns("binary") =>
        LET conventional == [abs |-> repo_dir.abs,
                             segs |-> repo_dir.segs \o <<"amadeusd">>]
        IN  /\ fs[conventional.segs] # "none" => binary_path = conventional
            /\ fs[conventional.segs] = "none" =>
                  /\ binary_path.segs \in BinaryNodes
                  /\ fs[binary_path.segs] = "file"
                  /\ IsPrefix(repo_dir.segs, binary_path.segs)
                  /\ binary_path.segs[Len(binary_path.segs)] = "amadeusd"
                  /\ \E i \in DOMAIN cmdlog :
                        cmdlog[i].name = "find" /\ cmdlog[i].dir = repo_dir
            /\ binary_path.segs \in DOMAIN mode
            /\ mode[binary_path.segs] = 493

\* C7 witness: the binary was found by the search, below the build root ex.
C7_Witness ==
    /\ Returns("binary")
    /\ repo_dir.segs = <<"ex">>
    /\ fs[ExBin] = "none"
    /\ binary_path.segs = NestedBinA
    /\ mode[NestedBinA] = 493

FourOverrides == {"TESTNET", "WORKFOLDER", "HTTP_IPV4", "HTTP_PORT"}

\* C8: the environment given to os.execve holds TESTNET=true, WORKFOLDER=the
\* configured work directory, HTTP_IPV4=127.0.0.1 and HTTP_PORT=the configured
\* port in decimal; every other inherited variable is there unchanged and no
\* other name is added.
C8_LaunchEnvironment ==
    \A i \in DOMAIN execs :
        LET env == execs[i].env
        IN  /\ DOMAIN env = DOMAIN environ \cup FourOverrides
            /\ env["TESTNET"] = "true"
            /\ env["WORKFOLDER"] = workdir
            /\ env["HTTP_IPV4"] = "127.0.0.1"
            /\ port = 8080 => env["HTTP_PORT"] = "8080"
            /\ port = 9090 => env["HTTP_PORT"] = "9090"
            /\ \A n \in DOMAIN environ \ FourOverrides : env[n] = environ[n]

\* C8 witness: port 9090 and work directory /data/x, launched from an
\* environment that already sets all four names.
C8_Witness ==
    /\ Len(execs) = 1
    /\ port = 9090
    /\ workdir = "/data/x"
    /\ FourOverrides \subseteq DOMAIN environ
    /\ environ["HTTP_PORT"] = "80"

\* C9: an interrupt can be delivered wherever the run has not ended, it ends
\* the run with status 0 and nothing is started after it; every exit that is
\* not due to an interrupt has a non-zero status.
C9_InterruptInv ==
    /\ interrupted => pc = "exited" /\ exitStatus = 0
    /\ pc = "exited" /\ ~interrupted => exitStatus > 0
    /\ pc \notin Terminal => ENABLED keyboard_interrupt

C9_InterruptExitsZero ==
    /\ []C9_InterruptInv
    /\ [][interrupted' /\ ~interrupted => stages' = stages /\ cmdlog' = cmdlog]_vars
    /\ [][~interrupted]_vars

\* C9 witness: the interrupt arrived while the containerized make was running.
C9_Witness ==
    /\ interrupted
    /\ pc = "exited"
    /\ exitStatus = 0
    /\ Len(cmdlog) > 0
    /\ cmdlog[Len(cmdlog)].name = "run make"
    /\ ~cmdlog[Len(cmdlog)].returned

CheckedCommands == {"clone", "build", "run make", "find"}

\* C10: when git clone, the image build, the containerized make or find has
\* exited with a code c in 1..255, the orchestrator has exited with status c.
C10_ExitCodePropagated ==
    \A i \in DOMAIN cmdlog :
        /\ cmdlog[i].name \in CheckedCommands
        /\ cmdlog[i].returned
        /\ cmdlog[i].rc > 0
        => /\ pc = "exited"
           /\ exitStatus = cmdlog[i].rc
           /\ i = Len(cmdlog)

\* C10 witness: find exited with code 2 and so did the orchestrator.
C10_Witness ==
    /\ Len(cmdlog) = 4
    /\ cmdlog[4].name = "find"
    /\ cmdlog[4].returned
    /\ cmdlog[4].rc = 2
    /\ exitStatus = 2

\* The step is the raising of KeyboardInterrupt.
InterruptStep == interrupted' /\ ~interrupted

\* The step is run_command's exit on a checked command that returned non-zero.
CommandFailureStep ==
    \E name \in CheckedCommands, rc \in RetCodes \ {0} : CommandReturns(name, rc)

\* C11: every exit the program decides on itself has status exactly 1: no
\* descriptor at the root or under ex, no descriptor at the re-check of the
\* image build, no binary at the conventional path nor found by the search,
\* a failed os.execve, and any exception other than the interrupt.
C11_InternalFatalIsOne ==
    [][/\ pc' = "exited" /\ pc # "exited" /\ ~InterruptStep /\ ~CommandFailureStep
            => exitStatus' = 1
       /\ pc = "resolve" /\ ~Exists([abs |-> TRUE, segs |-> RootDF])
            /\ ~Exists([abs |-> TRUE, segs |-> ExDF]) /\ pc' # pc /\ ~InterruptStep
            => pc' = "exited" /\ exitStatus' = 1
       /\ pc = "image" /\ fs[repo_dir.segs \o <<"build.Dockerfile">>] = "none"
            /\ pc' # pc /\ ~InterruptStep
            => pc' = "exited" /\ exitStatus' = 1 /\ cmdlog' = cmdlog
       /\ CommandReturns("find", 0)
            /\ (\A n \in BinaryNodes : IsPrefix(repo_dir.segs, n) => fs[n] # "file")
            => pc' = "exited" /\ exitStatus' = 1
       /\ CommandReturns("find", 0)
            /\ Cardinality({n \in BinaryNodes :
                               IsPrefix(repo_dir.segs, n) /\ fs[n] = "file"}) > 1
            => pc' = "exited" /\ exitStatus' = 1
       /\ pc = "workdir" /\ workdirKind = "file" /\ pc' # pc /\ ~InterruptStep
            => pc' = "exited" /\ exitStatus' = 1
       /\ pc = "launch" /\ pc' = "exited" /\ ~InterruptStep
            => Len(execs') = 1 /\ exitStatus' = 1]_vars

\* C11 witness: make succeeded but left no amadeusd, and find found none.
C11_Witness ==
    /\ pc = "exited"
    /\ ~interrupted
    /\ exitStatus = 1
    /\ Len(cmdlog) = 4
    /\ cmdlog[4].name = "find" /\ cmdlog[4].returned /\ cmdlog[4].rc = 0
    /\ \A n \in BinaryNodes : fs[n] # "file"

\* C12: os.execve is called at most once in a run; after a successful call
\* the orchestrator takes no step at all, after a failed one it has exited
\* with a non-zero status and takes no step either.
C12_LaunchInv ==
    /\ Len(execs) <= 1
    /\ Len(execs) = 1 => pc \in Terminal
    /\ Len(execs) = 1 /\ pc = "exited" => exitStatus > 0 /\ ~interrupted
    /\ pc = "replaced" => Len(execs) = 1 /\ exitStatus = -1 /\ ~interrupted

C12_SingleReplacement ==
    /\ []C12_LaunchInv
    /\ [][Len(execs) = 0]_vars

\* C12 witness: os.execve failed on a regular, executable file and the
\* orchestrator exited with status 1.
C12_Witness ==
    /\ Len(execs) = 1
    /\ pc = "exited"
    /\ exitStatus = 1
    /\ fs[execs[1].path.segs] = "file"
    /\ mode[execs[1].path.segs] = 493

\* The owner-executable bit (0o100) of a mode.
OwnerExecutable(m) == (m \div 64) % 2 = 1

\* C13: whenever verify_binary has returned, its result is an absolute path
\* of an existing regular file whose owner-executable bit is set.
C13_AbsoluteExecutableFile ==
    Returns("binary") =>
        /\ binary_path.abs
        /\ Kind(binary_path.segs) = "file"
        /\ OwnerExecutable(mode[binary_path.segs])

\* The end-to-end scenario: preference auto with an engine, git and make
\* installed, a fresh clone with the descriptor only under ex, clone, image
\* build and make successful, the binary at <checkout>/ex/amadeusd, and no
\* interrupt.
EndToEndScenario ==
    /\ container_runtime = "auto"
    /\ {"git", "make"} \subseteq onPath
    /\ onPath \cap {"docker", "podman"} # {}
    /\ ~interrupted
    /\ Len(cmdlog) >= 3
    /\ cmdlog[1].name = "clone" /\ cmdlog[1].returned /\ cmdlog[1].rc = 0
    /\ cmdlog[2].name = "build" /\ cmdlog[2].returned /\ cmdlog[2].rc = 0
    /\ cmdlog[3].name = "run make" /\ cmdlog[3].returned /\ cmdlog[3].rc = 0
    /\ fs[RootDF] = "none"
    /\ fs[ExDF] = "file"
    /\ fs[ExBin] = "file"

\* os.execve was called with <checkout>/ex/amadeusd and the four overrides.
LaunchedFromEx ==
    /\ Len(execs) = 1
    /\ execs[1].path.segs = <<"ex", "amadeusd">>
    /\ execs[1].env["TESTNET"] = "true"
    /\ execs[1].env["WORKFOLDER"] = workdir
    /\ execs[1].env["HTTP_IPV4"] = "127.0.0.1"
    /\ execs[1].env["HTTP_PORT"] = (IF port = 8080 THEN "8080" ELSE "9090")

C15_FirstMatchUsed ==
    /\ Len(cmdlog) = 4
    /\ cmdlog[4].name = "find" /\ cmdlog[4].returned /\ cmdlog[4].rc = 0
    /\ Cardinality({n \in BinaryNodes : IsPrefix(repo_dir.segs, n) /\ fs[n] = "file"}) > 1
    => /\ Returns("binary")
       /\ binary_path.segs \in BinaryNodes
       /\ fs[binary_path.segs] = "file"
       /\ mode[binary_path.segs] = 493

\* C16: self.repo_dir is assigned at most once after its initial value, in
\* the resolution step of source preparation; the image build's directory,
\* the directory mounted for make, the root of find and the directory of the
\* binary returned are all that build root.
C16_BuildRootInv ==
    /\ \A i \in DOMAIN cmdlog :
          cmdlog[i].name \in {"build", "run make", "find"} =>
              cmdlog[i].dir.segs = repo_dir.segs
    /\ \A i \in DOMAIN cmdlog :
          cmdlog[i].name \in {"build", "find"} => cmdlog[i].dir = repo_dir
    /\ Returns("binary") =>
          SubSeq(binary_path.segs, 1, Len(repo_dir.segs)) = repo_dir.segs
    /\ repo_dir.segs \in {<<>>, <<"ex">>}
    /\ repo_dir.segs = <<"ex">> => Started("source")

C16_BuildRootStable ==
    /\ []C16_BuildRootInv
    /\ [][repo_dir' # repo_dir =>
             /\ pc = "resolve"
             /\ repo_dir.segs = <<>>
             /\ repo_dir'.segs = <<"ex">>
             /\ stages' = <<"deps", "source">>]_vars
    /\ [][Returns("source") => repo_dir' = repo_dir]_vars

\* C16 witness: the build root is ex and the image build, make and find all
\* ran on it.
C16_Witness ==
    /\ repo_dir.segs = <<"ex">>
    /\ Len(cmdlog) = 4
    /\ cmdlog[2].name = "build" /\ cmdlog[2].dir.segs = <<"ex">>
    /\ cmdlog[3].name = "run make" /\ cmdlog[3].dir.segs = <<"ex">>
    /\ cmdlog[4].name = "find" /\ cmdlog[4].dir.segs = <<"ex">>
    /\ Returns("binary")

\* C17: self.runtime_cmd is assigned once, in the first stage, and is docker
\* or podman in every state where the image build or the containerized make
\* has been invoked; both invocations use that engine.
C17_RuntimeInv ==
    /\ \A i \in DOMAIN cmdlog :
          cmdlog[i].name \in {"build", "run make"} =>
              /\ cmdlog[i].prog \in {"docker", "podman"}
              /\ cmdlog[i].prog = runtime_cmd
    /\ runtime_cmd # "None" <=> Returns("deps")

C17_RuntimeChosenOnce ==
    /\ []C17_RuntimeInv
    /\ [][runtime_cmd' # runtime_cmd =>
             /\ runtime_cmd = "None"
             /\ pc = "deps"
             /\ runtime_cmd' \in {"docker", "podman"}]_vars

\* C17 witness: podman was selected and ran both the image build and make.
C17_Witness ==
    /\ runtime_cmd = "podman"
    /\ Len(cmdlog) >= 3
    /\ cmdlog[Len(cmdlog) - 1].name = "build" /\ cmdlog[Len(cmdlog) - 1].prog = "podman"
    /\ cmdlog[Len(cmdlog)].name = "run make" /\ cmdlog[Len(cmdlog)].prog = "podman"

\* C18: the work directory changes only in the step of create_work_directory,
\* after verify_binary returned and before any os.execve; it exists whenever
\* os.execve has been called; creating it over an existing directory changes
\* nothing and goes on to the launch.
C18_WorkdirInv ==
    /\ Len(execs) > 0 => workdirKind = "dir"
    /\ pc \in {"launch", "replaced"} => workdirKind = "dir"

C18_WorkdirCreation ==
    /\ []C18_WorkdirInv
    /\ [][workdirKind' # workdirKind =>
             /\ pc = "workdir"
             /\ Returns("binary")
             /\ Len(execs') = 0
             /\ workdirKind' = "dir"]_vars
    /\ [][~Returns("binary") => workdirKind' = workdirKind]_vars
    /\ [][pc = "workdir" /\ workdirKind = "dir" /\ pc' # pc /\ ~InterruptStep =>
             /\ pc' = "launch"
             /\ workdirKind' = "dir"]_vars

\* C18 witness: the work directory was there already and os.execve was called.
C18_Witness ==
    /\ Len(execs) = 1
    /\ workdirKind = "dir"
    /\ pc = "replaced"

\* C19: with git or make missing, nothing but git and make is ever probed, no
\* runtime is selected, no command is spawned and the checkout is not
\* touched; once check_dependencies has run the process has exited with
\* status 1, whatever the preference and the engines installed.
C19_MissingInv ==
    ~({"git", "make"} \subseteq onPath) =>
        /\ probed \subseteq {"git", "make"}
        /\ runtime_cmd = "None"
        /\ cmdlog = <<>>
        /\ Len(stages) <= 1
        /\ Started("deps") => pc = "exited" /\ exitStatus = 1 /\ probed = {"git", "make"}
        /\ pc = "exited" /\ ~interrupted => exitStatus = 1

C19_MissingDependency ==
    /\ []C19_MissingInv
    /\ [][~({"git", "make"} \subseteq onPath) =>
             UNCHANGED <<repo_dir, repoExists, fs, mode, workdirKind>>]_vars

\* C19 witness: make is missing, docker was requested and is installed.
C19_Witness ==
    /\ "make" \notin onPath
    /\ "git" \in onPath
    /\ container_runtime = "docker"
    /\ "docker" \in onPath
    /\ pc = "exited"
    /\ exitStatus = 1

\* The positions where run_command waits for its child.
WaitPositions == {"pull_wait", "clone_wait", "image_wait", "compile_wait", "find_wait"}

\* C20: when every external command completes, the run reaches a terminal
\* outcome, which is exactly one of: process replaced, exit 0 after an
\* interrupt, exit non-zero after a fatal condition, and it stays there; a
\* run waiting for a command leaves that position only by the command's
\* return or by an interrupt.
C20_OutcomeInv ==
    /\ pc = "replaced" => exitStatus = -1 /\ ~interrupted /\ Len(execs) = 1
    /\ pc = "exited" => \/ interrupted /\ exitStatus = 0
                        \/ ~interrupted /\ exitStatus > 0
    /\ pc \notin Terminal => exitStatus = -1 /\ ~interrupted
    /\ pc \in WaitPositions <=>
          Len(cmdlog) > 0 /\ ~cmdlog[Len(cmdlog)].returned /\ ~interrupted

C20_Termination ==
    /\ <>(pc \in Terminal)
    /\ []C20_OutcomeInv
    /\ [][(pc \in Terminal) => pc' = pc /\ exitStatus' = exitStatus]_vars
    /\ [][(pc \in WaitPositions) /\ pc' # pc =>
             \/ InterruptStep /\ pc' = "exited" /\ exitStatus' = 0
             \/ cmdlog'[Len(cmdlog)].returned]_vars

\* C20 witness: the run was blocked on the image build and ended by an
\* interrupt.
C20_Witness ==
    /\ pc = "exited"
    /\ interrupted
    /\ exitStatus = 0
    /\ Len(cmdlog) = 2
    /\ cmdlog[2].name = "build"
    /\ ~cmdlog[2].returned
====
